---- MODULE Spec2Model ----
(***************************************************************************)
(* Model of the subtitle synchronisation engine of ytdlp_subs:             *)
(* DownloadOrchestrator.execute and the services and repositories it       *)
(* drives (channel resolution with cache, completion tracking by filename  *)
(* scan, per-video language fallback, finalisation, pacing), as called by  *)
(* presentation/cli.py run_download.                                       *)
(*                                                                         *)
(* Text is modelled as sequences of one-character strings, so that file    *)
(* names are really composed by FilenameGenerator and really parsed back   *)
(* by VIDEO_ID_PATTERN.                                                    *)
(***************************************************************************)
EXTENDS Integers, Sequences, FiniteSets, TLC

(***************************************************************************)
(* Bounds of the model.                                                    *)
(***************************************************************************)
\* longest title drawn for the filename round trip
MaxTitleLen == 3
\* number of leading characters of a video id that vary in the round trip
MaxIdPrefix == 2

(***************************************************************************)
(* Characters and text helpers.                                            *)
(***************************************************************************)
Digits == {"0", "1", "2", "3", "4", "5", "6", "7", "8", "9"}

Letters ==
  {"a", "b", "c", "d", "e", "f", "g", "h", "i", "j", "k", "l", "m",
   "n", "o", "p", "q", "r", "s", "t", "u", "v", "w", "x", "y", "z",
   "A", "B", "C", "D", "E", "F", "G", "H", "I", "J", "K", "L", "M",
   "N", "O", "P", "Q", "R", "S", "T", "U", "V", "W", "X", "Y", "Z"}

DigitChar == <<"0", "1", "2", "3", "4", "5", "6", "7", "8", "9">>

\* c repeated n times
Rep(c, n) == [i \in 1..n |-> c]

\* Python str(n) of a natural number
RECURSIVE Str(_)
Str(n) ==
  IF n < 10 THEN <<DigitChar[n + 1]>>
  ELSE Str(n \div 10) \o <<DigitChar[(n % 10) + 1]>>

\* Python s.zfill(w)
ZFill(s, w) == IF Len(s) >= w THEN s ELSE Rep("0", w - Len(s)) \o s

\* Python s.strip(), for the whitespace of the model (the blank)
RECURSIVE LStrip(_)
LStrip(s) == IF s # <<>> /\ Head(s) = " " THEN LStrip(Tail(s)) ELSE s

RECURSIVE RStrip(_)
RStrip(s) ==
  IF s # <<>> /\ s[Len(s)] = " " THEN RStrip(SubSeq(s, 1, Len(s) - 1)) ELSE s

Strip(s) == RStrip(LStrip(s))

\* the language codes and extensions as text
LangText(l) == IF l = "hi" THEN <<"h", "i">> ELSE <<"e", "n">>

FormatText(f) ==
  IF f = "vtt" THEN <<"v", "t", "t">>
  ELSE IF f = "srt" THEN <<"s", "r", "t">>
  ELSE <<"t", "x", "t">>

(***************************************************************************)
(* domain/models.py: VideoId                                               *)
(***************************************************************************)
VIDEO_ID_LENGTH == 11

\* VideoId.__post_init__: the only validation is non-empty and length 11
VideoIdValid(s) == s # <<>> /\ Len(s) = VIDEO_ID_LENGTH

(***************************************************************************)
(* application/services/filename_generator.py: FilenameGenerator           *)
(***************************************************************************)
INVALID_CHARS_PATTERN == {"\\", "/", "*", "?", ":", "\"", "<", ">", "|"}

MAX_TITLE_LENGTH == 100

DEFAULT_PADDING == 4

\* total_count is None
NoTotal == -1

UnknownTitle == <<"U", "n", "k", "n", "o", "w", "n", "T", "i", "t", "l", "e">>

SanitizeTitle(title) ==
  LET removed == Strip(SelectSeq(title, LAMBDA c : c \notin INVALID_CHARS_PATTERN))
      cut == IF Len(removed) > MAX_TITLE_LENGTH
             THEN SubSeq(removed, 1, MAX_TITLE_LENGTH)
             ELSE removed
  IN IF cut = <<>> THEN UnknownTitle ELSE cut

\* a prefix of fixed width
FixedWidthPrefix(index, total_count) == ZFill(Str(index), DEFAULT_PADDING)

\* _generate_number_prefix: the index padded to the digits of the total
GenerateNumberPrefix(index, total_count) ==
  IF total_count = NoTotal
  THEN ZFill(Str(index), DEFAULT_PADDING)
  ELSE ZFill(Str(index), Len(Str(total_count)))

\* generate_filename: [index_]videoID_sanitizedTitle.language.format
GenerateFilename(enable_numbering, vid, title, lang, fmt, index, total_count) ==
  LET base == vid \o <<"_">> \o SanitizeTitle(title)
      numbered == IF enable_numbering
                  THEN GenerateNumberPrefix(index, total_count) \o <<"_">> \o base
                  ELSE base
  IN numbered \o <<".">> \o LangText(lang) \o <<".">> \o FormatText(fmt)

(***************************************************************************)
(* infrastructure/repositories/subtitle_repository.py: VIDEO_ID_PATTERN    *)
(*   ^(?:\d+_)?([a-zA-Z0-9_-]{11})_.*                                      *)
(***************************************************************************)
IdChar(c) == c \in Letters \cup Digits \cup {"_", "-"}

\* number of leading digits of s
LeadingDigits(s) ==
  CHOOSE k \in 0..Len(s) :
    /\ \A i \in 1..k : s[i] \in Digits
    /\ (k < Len(s) => s[k + 1] \notin Digits)

\* ([a-zA-Z0-9_-]{11})_ matches s at position p
IdAt(s, p) ==
  /\ p + VIDEO_ID_LENGTH <= Len(s)
  /\ \A i \in p..(p + VIDEO_ID_LENGTH - 1) : IdChar(s[i])
  /\ s[p + VIDEO_ID_LENGTH] = "_"

\* group 1 of VIDEO_ID_PATTERN.match(name), <<>> when there is no match.
\* The optional (?:\d+_) is greedy: the matcher first takes the digits and
\* the underscore, and drops them only when the rest does not match.
MatchVideoId(name) ==
  LET k == LeadingDigits(name)
  IN IF k >= 1 /\ k < Len(name) /\ name[k + 1] = "_" /\ IdAt(name, k + 2)
     THEN SubSeq(name, k + 2, k + 1 + VIDEO_ID_LENGTH)
     ELSE IF IdAt(name, 1)
          THEN SubSeq(name, 1, VIDEO_ID_LENGTH)
          ELSE <<>>

\* get_downloaded_video_ids over the names of the files of a directory
GetDownloadedVideoIds(names) ==
  {MatchVideoId(n) : n \in {m \in names : VideoIdValid(MatchVideoId(m))}}

(***************************************************************************)
(* The channel, the configuration values and the files of the model.       *)
(***************************************************************************)
\* how many videos a channel listing holds at most
MaxVideos == 2
\* how many times the command is run in a row
MaxRuns == 2

\* a video id that starts with a digit and an underscore, and a plain one
VidA == <<"1", "_">> \o Rep("a", VIDEO_ID_LENGTH - 2)

VidB == Rep("b", VIDEO_ID_LENGTH)

Videos == {VidA, VidB}

\* the title the platform reports for a video
VideoTitle(vid) == IF vid = VidA THEN <<"T", "_", "x">> ELSE <<"T", ":">>

\* a cache line that is no video id
BadLine == <<"b", "a", "d">>

Listings == UNION {[1..k -> Videos] : k \in 0..MaxVideos}

\* subtitle_downloader.py:92: <id>_<lang>.temp.<lang>.<ext>
TempFileName(vid, lang, ext) ==
  vid \o <<"_">> \o LangText(lang) \o <<".", "t", "e", "m", "p", ".">>
      \o LangText(lang) \o <<".">> \o FormatText(ext)

\* Path.suffix of a file name: the text from the last dot on
RECURSIVE LastDot(_)
LastDot(name) ==
  IF name = <<>> THEN 0
  ELSE IF name[Len(name)] = "." THEN Len(name)
  ELSE LastDot(SubSeq(name, 1, Len(name) - 1))

Suffix(name) ==
  IF LastDot(name) <= 1 THEN <<>> ELSE SubSeq(name, LastDot(name), Len(name))

\* Path.with_suffix(".txt")
WithSuffixTxt(name) ==
  (IF LastDot(name) <= 1 THEN name ELSE SubSeq(name, 1, LastDot(name) - 1))
    \o <<".", "t", "x", "t">>

VARIABLES
  fn,                 \* filename round trip: the last generate_filename call and its scan
  cfg,                \* AppConfig: enable_numbering, output_format, languages, cache_on,
                      \* min_wait_seconds, max_wait_seconds
  channel,            \* the identifiers the platform lists for the channel
  cache,              \* the cache file: [exists, lines]
  dir,                \* names of the files of the output directory
  runsLeft,           \* runs of the command still to start
  log_file,           \* sub_downloader/main.py: the entries of download_log.json
  force,              \* force_refresh of the current run
  pc,                 \* where the current run stands
  all_video_ids,      \* execute: all_video_ids
  downloaded_ids,     \* execute: downloaded_ids
  videos_to_download, \* execute: videos_to_download
  progress,           \* DownloadProgress
  idx,                \* execute: idx of the loop over videos_to_download
  langIdx,            \* _process_video: position in language_preferences
  subtitle_file,      \* _process_video: subtitle_file (file_path, language, format)
  outcome,            \* how execute ended: returned or the exception raised
  exitCode,           \* run_download's exit code, -1 while running
  attempts,           \* observed: fetch-subtitle calls made for the current video
  finalized,          \* observed: final paths reported for the current video
  handled,            \* observed: how the current video ended
  listCalls,          \* observed: network list calls of the run
  cacheReads,         \* observed: cache reads of the run
  cacheAtStart,       \* observed: the cache file when the run started
  dirAtStart,         \* observed: the output directory when the run started
  failedBefore,       \* observed: failed_videos when the current video was started
  waits,              \* observed: paced waits the run has completed
  delays,             \* observed: the wait_time of each of these waits, in seconds
  cancelledAt,        \* observed: where the run was when it was interrupted
  fetchLog,           \* observed: the fetch-subtitle calls of the run, in order
  cause,              \* observed: the step that failed the run or the current video
  metadataCalls,      \* observed: metadata calls of the tool for the current video
  created             \* observed: final files written by the run

orchVars ==
  <<cfg, channel, cache, dir, runsLeft, log_file, force, pc, all_video_ids, downloaded_ids,
    videos_to_download, progress, idx, langIdx, subtitle_file, outcome, exitCode,
    attempts, finalized, handled, listCalls, cacheReads, cacheAtStart, dirAtStart,
    failedBefore, waits, delays, cancelledAt, fetchLog, cause, metadataCalls,
    created>>

vars == <<fn, orchVars>>

NoFile == [exists |-> FALSE, lines |-> <<>>]

NoSubtitle == [file_path |-> <<>>, language |-> "hi", format |-> "vtt"]

ZeroProgress == [total |-> 0, processed |-> 0, skipped |-> 0, failed |-> 0]

\* the run state before execute is entered
RunReset ==
  /\ all_video_ids = <<>>
  /\ downloaded_ids = {}
  /\ videos_to_download = <<>>
  /\ progress = ZeroProgress
  /\ idx = 0
  /\ langIdx = 0
  /\ subtitle_file = NoSubtitle
  /\ outcome = "none"
  /\ exitCode = -1
  /\ attempts = <<>>
  /\ finalized = {}
  /\ handled = "none"
  /\ listCalls = 0
  /\ cacheReads = 0
  /\ failedBefore = 0
  /\ waits = 0
  /\ delays = <<>>
  /\ cancelledAt = "none"
  /\ fetchLog = <<>>
  /\ cause = "none"
  /\ metadataCalls = 0
  /\ created = {}

OrchIdle ==
  /\ cfg = [enable_numbering |-> TRUE, output_format |-> "none",
            languages |-> <<"hi", "en">>, cache_on |-> FALSE,
            min_wait_seconds |-> 0, max_wait_seconds |-> 0]
  /\ channel = <<>>
  /\ cache = NoFile
  /\ dir = {}
  /\ runsLeft = 0
  /\ log_file = <<>>
  /\ force = FALSE
  /\ pc = "idle"
  /\ cacheAtStart = NoFile
  /\ dirAtStart = {}
  /\ RunReset

(***************************************************************************)
(* Filename round trip: generate_filename followed by the tracker's scan.  *)
(***************************************************************************)
\* texts of length 0..n over the characters cs
TextsUpTo(cs, n) == UNION {[1..k -> cs] : k \in 0..n}

RoundTripIds ==
  {p \o Rep("a", VIDEO_ID_LENGTH - MaxIdPrefix) :
     p \in [1..MaxIdPrefix -> {"1", "_", "a", "-"}]}

RoundTripTitles ==
  TextsUpTo({"T", "_", ":", " "}, MaxTitleLen) \cup {Rep("x", MAX_TITLE_LENGTH + 1)}

RoundTripNumbers == {<<1, 1>>, <<7, 123>>, <<2, NoTotal>>}

NoCall ==
  [op |-> "none", numbering |-> FALSE, vid |-> <<>>, title |-> <<>>,
   lang |-> "hi", format |-> "vtt", index |-> 0, total |-> 0,
   name |-> <<>>, parsed |-> <<>>]

\* the arguments of one call of generate_filename
RoundTripInputs ==
  {[op |-> "input", numbering |-> numbering, vid |-> vid, title |-> title,
    lang |-> lang, format |-> "vtt", index |-> nums[1], total |-> nums[2],
    name |-> <<>>, parsed |-> <<>>] :
     numbering \in BOOLEAN, vid \in RoundTripIds, title \in RoundTripTitles,
     lang \in {"hi", "en"},
     nums \in RoundTripNumbers}

InitRoundTrip ==
  /\ fn \in {c \in RoundTripInputs : ~c.numbering => (c.index = 1 /\ c.total = 1)}
  /\ OrchIdle

CallGenerateFilename ==
  /\ fn.op = "input"
  /\ UNCHANGED orchVars
  /\ fn' = [fn EXCEPT !.op = "generate_filename",
                      !.name = GenerateFilename(fn.numbering, fn.vid, fn.title,
                                                fn.lang, fn.format, fn.index,
                                                fn.total)]

ScanFilename ==
  /\ fn.op = "generate_filename"
  /\ UNCHANGED orchVars
  /\ fn' = [fn EXCEPT !.op = "scan", !.parsed = MatchVideoId(fn.name)]

NextRoundTrip == CallGenerateFilename \/ ScanFilename

SpecRoundTrip == InitRoundTrip /\ [][NextRoundTrip]_vars

(***************************************************************************)
(* The number prefix of two indexes of one channel.                        *)
(***************************************************************************)
\* the largest channel total drawn for the number prefix
MaxTotal == 123

\* two indexes i < j of a channel of t videos
PrefixInput(i, j, t) ==
  [op |-> "input", index |-> i, other |-> j, total |-> t,
   prefix |-> <<>>, otherPrefix |-> <<>>]

InitPrefix ==
  /\ \E t \in 1..MaxTotal : \E j \in 1..t : \E i \in 1..(j - 1) :
       fn = PrefixInput(i, j, t)
  /\ OrchIdle

CallGenerateNumberPrefix ==
  /\ fn.op = "input"
  /\ UNCHANGED orchVars
  /\ fn' = [fn EXCEPT !.op = "prefix",
                      !.prefix = GenerateNumberPrefix(fn.index, fn.total),
                      !.otherPrefix = GenerateNumberPrefix(fn.other, fn.total)]

NextPrefix == CallGenerateNumberPrefix

SpecPrefix == InitPrefix /\ [][NextPrefix]_vars

(***************************************************************************)
(* The construction of a VideoId from a text.                              *)
(***************************************************************************)
\* texts of 0, 10, 11 and 12 characters: MaxIdPrefix characters that vary,
\* among them two that are outside [A-Za-z0-9_-], filled up with "a"
VideoIdTexts ==
  {SubSeq(p \o Rep("a", VIDEO_ID_LENGTH + 1), 1, n) :
     p \in [1..MaxIdPrefix -> {"a", "Z", "7", "_", "-", "!", " "}],
     n \in {0, VIDEO_ID_LENGTH - 1, VIDEO_ID_LENGTH, VIDEO_ID_LENGTH + 1}}

InitVideoId ==
  /\ fn \in {[op |-> "input", value |-> v, constructed |-> FALSE] :
               v \in VideoIdTexts}
  /\ OrchIdle

\* VideoId(value): constructed unless __post_init__ raises ValueError
ConstructVideoId ==
  /\ fn.op = "input"
  /\ UNCHANGED orchVars
  /\ fn' = [fn EXCEPT !.op = "VideoId", !.constructed = VideoIdValid(fn.value)]

NextVideoId == ConstructVideoId

SpecVideoId == InitVideoId /\ [][NextVideoId]_vars

(***************************************************************************)
(* presentation/cli.py run_download and DownloadOrchestrator.execute.      *)
(***************************************************************************)
\* what a step of a run of ytdlp_subs leaves as it is (the package writes no
\* download_log.json)
fixedVars ==
  <<fn, cfg, channel, runsLeft, log_file, force, cacheAtStart, dirAtStart>>

\* the control part of a step: where the run goes and what it has counted
Ctl(pc2, progress2, outcome2, exitCode2, handled2) ==
  /\ pc' = pc2
  /\ progress' = progress2
  /\ outcome' = outcome2
  /\ exitCode' = exitCode2
  /\ handled' = handled2

Goto(pc2) == Ctl(pc2, progress, outcome, exitCode, handled)

\* an exit code that ignores the failures
ExitCodeZero(p) == 0

\* cli.py:212-219: the exit code of a run whose execute returned
ExitCodeOf(p) == IF p.failed > 0 THEN 1 ELSE 0

\* execute returns p to run_download
Return(p, h) == Ctl("done", p, "returned", ExitCodeOf(p), h)

\* an exception that is swallowed where it is raised
Swallowed(exc) == Goto(pc)

\* an exception leaves execute; run_download reports it and returns 1
Raise(exc) == Ctl("done", progress, exc, 1, handled)

\* a wait after every video, the last one too
WaitAlways == TRUE

\* download_orchestrator.py:156: if idx < len(videos_to_download)
WaitNeeded == idx < Len(videos_to_download)

\* a failed video counted as processed too
CountedOnEntry(p, ok) ==
  IF ok THEN [p EXCEPT !.processed = @ + 1]
  ELSE [p EXCEPT !.processed = @ + 1, !.failed = @ + 1]

\* download_orchestrator.py:141 and 149: processed_videos += 1 after
\* _process_video returned, failed_videos += 1 in the except branch
Counted(p, ok) ==
  IF ok THEN [p EXCEPT !.processed = @ + 1]
  ELSE [p EXCEPT !.failed = @ + 1]

\* download_orchestrator.py:141-157: count the video, then wait or leave the loop
VideoDone(ok) ==
  LET p2 == Counted(progress, ok)
      h == IF ok THEN "processed" ELSE "failed"
  IN IF WaitNeeded
     THEN Ctl("wait", p2, outcome, exitCode, h)
     ELSE Return(p2, h)

\* a new run of the command: Container and orchestrator are built afresh
StartRun ==
  /\ pc \in {"idle", "done"}
  /\ runsLeft > 0
  /\ runsLeft' = runsLeft - 1
  /\ \E f \in BOOLEAN :
       /\ force' = f
       /\ pc' = IF f THEN "network" ELSE "cache"
  /\ cacheAtStart' = cache
  /\ dirAtStart' = dir
  /\ failedBefore' = 0
  /\ waits' = 0
  /\ delays' = <<>>
  /\ cancelledAt' = "none"
  /\ fetchLog' = <<>>
  /\ cause' = "none"
  /\ metadataCalls' = 0
  /\ all_video_ids' = <<>>
  /\ downloaded_ids' = {}
  /\ videos_to_download' = <<>>
  /\ progress' = ZeroProgress
  /\ idx' = 0
  /\ langIdx' = 0
  /\ subtitle_file' = NoSubtitle
  /\ outcome' = "none"
  /\ exitCode' = -1
  /\ attempts' = <<>>
  /\ finalized' = {}
  /\ handled' = "none"
  /\ listCalls' = 0
  /\ cacheReads' = 0
  /\ created' = {}
  /\ UNCHANGED <<fn, cfg, channel, cache, dir, log_file>>

\* the non-blank lines of a text file, stripped
StrippedLines(lines) ==
  SelectSeq([i \in 1..Len(lines) |-> Strip(lines[i])], LAMBDA l : l # <<>>)

\* a cache that is never used
UseCachedIdsNever(ids) == FALSE

\* a cache file that is used whatever it holds
UseCachedIdsAlways(ids) == TRUE

\* cache_repository.py:43-45 and download_orchestrator.py:175: a cache without
\* identifiers is no cache
UseCachedIds(ids) == ids # <<>>

\* cache_repository.py:26-76 called from _get_channel_videos (173-177)
GetCachedVideoIds ==
  /\ pc = "cache"
  /\ cacheReads' = cacheReads + 1
  /\ IF ~cfg.cache_on \/ ~cache.exists
     THEN Goto("network") /\ UNCHANGED <<all_video_ids, cause>>
     ELSE \E ioError \in BOOLEAN :
            LET lines == StrippedLines(cache.lines)
            IN IF ioError
               THEN /\ Raise("CacheError")
                    /\ cause' = "cache_read"
                    /\ UNCHANGED all_video_ids
               ELSE IF ~UseCachedIds(lines)
               THEN Goto("network") /\ UNCHANGED <<all_video_ids, cause>>
               ELSE IF \E i \in 1..Len(lines) : ~VideoIdValid(lines[i])
               THEN /\ Raise("CacheError")
                    /\ cause' = "cache_invalid"
                    /\ UNCHANGED all_video_ids
               ELSE Goto("filter") /\ all_video_ids' = lines /\ UNCHANGED cause
  /\ UNCHANGED <<fixedVars, metadataCalls, failedBefore, waits, delays, cancelledAt, fetchLog,
                 cache, dir, downloaded_ids, videos_to_download, idx,
                 langIdx, subtitle_file, attempts, finalized, listCalls, created>>

\* video_repository.py:91-150 called from _get_channel_videos (179-181)
GetChannelVideoIds ==
  /\ pc = "network"
  /\ listCalls' = listCalls + 1
  /\ \E toolFails \in BOOLEAN :
       LET lines == StrippedLines(channel)
       IN IF toolFails \/ \E i \in 1..Len(lines) : ~VideoIdValid(lines[i])
          THEN Raise("VideoFetchError") /\ UNCHANGED all_video_ids
          ELSE Goto("save") /\ all_video_ids' = lines
  /\ UNCHANGED <<fixedVars, metadataCalls, failedBefore, waits, delays, cancelledAt, fetchLog, cause,
                 cache, dir, downloaded_ids, videos_to_download, idx,
                 langIdx, subtitle_file, attempts, finalized, cacheReads, created>>

\* the file opened for appending instead of writing
AppendedCacheContent(ids) == [exists |-> TRUE, lines |-> cache.lines \o ids]

\* cache_repository.py:102-104: the file is opened with "w", one line per id
CacheFileContent(ids) == [exists |-> TRUE, lines |-> ids]

\* a failed save that is logged and passed over
SaveFailedIgnored == Goto("filter")

\* cache_repository.py:112-121: the write failed, CacheError leaves
\* _get_channel_videos (184) and execute (93)
SaveFailed == Raise("CacheError")

\* cache_repository.py:78-121 called from _get_channel_videos (183-186)
SaveVideoIds ==
  /\ pc = "save"
  /\ IF ~cfg.cache_on
     THEN Goto("filter") /\ UNCHANGED cache
     ELSE \/ /\ cache' = CacheFileContent(all_video_ids)
             /\ Goto("filter")
          \/ /\ \/ UNCHANGED cache
                \/ \E k \in 0..Len(all_video_ids) :
                     cache' = CacheFileContent(SubSeq(all_video_ids, 1, k))
             /\ SaveFailed
  /\ UNCHANGED <<fixedVars, metadataCalls, failedBefore, waits, delays, cancelledAt, fetchLog, cause,
                 dir, all_video_ids, downloaded_ids, videos_to_download,
                 idx, langIdx, subtitle_file, attempts, finalized, listCalls,
                 cacheReads, created>>

\* a queue that is not filtered
AllVideos(ids, done) == ids

\* download_orchestrator.py:108
VideosToDownload(ids, done) == SelectSeq(ids, LAMBDA v : v \notin done)

\* download_orchestrator.py:95-127
FilterDownloaded ==
  /\ pc = "filter"
  /\ IF all_video_ids = <<>>
     THEN /\ Return(ZeroProgress, handled)
          /\ UNCHANGED <<downloaded_ids, videos_to_download, idx, langIdx>>
     ELSE LET done == GetDownloadedVideoIds(dir)
              todo == VideosToDownload(all_video_ids, done)
              p == [total |-> Len(all_video_ids), processed |-> 0,
                    skipped |-> Cardinality(done), failed |-> 0]
          IN /\ downloaded_ids' = done
             /\ videos_to_download' = todo
             /\ IF todo = <<>>
                THEN Return(p, handled) /\ UNCHANGED <<idx, langIdx>>
                ELSE /\ Ctl("fetch", p, outcome, exitCode, handled)
                     /\ idx' = 1
                     /\ langIdx' = 1
  /\ failedBefore' = 0
  /\ UNCHANGED <<fixedVars, metadataCalls, waits, delays, cancelledAt, fetchLog, cause,
                 cache, dir, all_video_ids, subtitle_file, attempts,
                 finalized, listCalls, cacheReads, created>>

(***************************************************************************)
(* DownloadOrchestrator._process_video and the services it calls.          *)
(***************************************************************************)
CurrentVideo == videos_to_download[idx]

\* the preference list walked from its end
ReversedLanguage == cfg.languages[Len(cfg.languages) + 1 - langIdx]

\* download_orchestrator.py:204: for language in self.language_preferences
CurrentLanguage == cfg.languages[langIdx]

\* download_orchestrator.py:137-138
CurrentIndex == idx + progress.skipped

\* what one fetch-subtitle invocation of the tool can come to
ToolReplies == {"notavail", "exists", "exit", "malformed", "timeout"}

\* download_orchestrator.py:217-223 and 272-277: continue with the next language;
\* when the list is exhausted _process_video returns normally
NextLanguage ==
  IF langIdx < Len(cfg.languages)
  THEN Goto("fetch") /\ langIdx' = langIdx + 1
  ELSE VideoDone(TRUE) /\ UNCHANGED langIdx

\* a missing temp file whose DownloadError leaves execute
TempFileMissingAborts == Raise("DownloadError") /\ UNCHANGED langIdx

\* subtitle_downloader.py:94-104: the reported file is not on disk, DownloadError
\* leaves _process_video and execute counts the video as failed
TempFileMissing == VideoDone(FALSE) /\ UNCHANGED langIdx

\* a failure of the tool taken for a missing track
FailureTriesNextLanguage == NextLanguage

\* subtitle_downloader.py:126-148: the tool exits non-zero, times out or prints
\* no JSON; DownloadError leaves _process_video (download_orchestrator.py:144-149)
ProcessLevelFailure == VideoDone(FALSE) /\ UNCHANGED langIdx

\* a timeout of the tool that ends the whole run
TimeoutAborts == Raise("CommandExecutionError") /\ UNCHANGED langIdx

\* command_executor.py:123-129: TimeoutExpired becomes CommandExecutionError,
\* which download_subtitle turns into DownloadError (subtitle_downloader.py:
\* 137-148); it leaves _process_video and execute counts the video as failed
TimeoutFailure == VideoDone(FALSE) /\ UNCHANGED langIdx

\* subtitle_downloader.py:35-148 called from _process_video (211-223)
DownloadSubtitle ==
  /\ pc = "fetch"
  /\ \E reply \in ToolReplies, ext \in {"vtt", "srt"}, wrote \in BOOLEAN :
       LET temp == TempFileName(CurrentVideo, CurrentLanguage, ext)
           written == IF reply = "exists" /\ wrote THEN dir \cup {temp} ELSE dir
           result == IF reply # "exists" THEN reply
                     ELSE IF temp \in written THEN "acquired" ELSE "missing"
       IN /\ (reply # "exists") => (ext = "vtt" /\ ~wrote)
          /\ dir' = written
          /\ attempts' = Append(attempts, [video |-> CurrentVideo,
                                           language |-> CurrentLanguage,
                                           result |-> result])
          /\ fetchLog' = Append(fetchLog, [index |-> idx, video |-> CurrentVideo,
                                           language |-> CurrentLanguage])
          /\ cause' = IF result = "missing" THEN "missing"
                      ELSE IF result \in {"notavail", "acquired"} THEN cause
                      ELSE "fetch"
          /\ CASE result = "notavail" -> NextLanguage /\ UNCHANGED subtitle_file
               [] result = "acquired" ->
                    /\ subtitle_file' = [file_path |-> temp,
                                         language |-> CurrentLanguage,
                                         format |-> ext]
                    /\ Goto("meta")
                    /\ UNCHANGED langIdx
               [] result = "missing" -> TempFileMissing /\ UNCHANGED subtitle_file
               [] result = "timeout" -> TimeoutFailure /\ UNCHANGED subtitle_file
               [] OTHER -> ProcessLevelFailure /\ UNCHANGED subtitle_file
  /\ UNCHANGED <<fixedVars, metadataCalls, failedBefore, waits, delays, cancelledAt,
                 cache, all_video_ids, downloaded_ids, videos_to_download,
                 idx, finalized, listCalls, cacheReads, created>>

\* video_repository.py:34-89 called from _process_video (225-228)
GetVideoMetadata ==
  /\ pc = "meta"
  /\ metadataCalls' = metadataCalls + 1
  /\ \E toolFails \in BOOLEAN :
       IF toolFails
       THEN VideoDone(FALSE) /\ cause' = "metadata"
       ELSE Goto("rename") /\ UNCHANGED cause
  /\ UNCHANGED <<fixedVars, failedBefore, waits, delays, cancelledAt, fetchLog,
                 cache, dir, all_video_ids, downloaded_ids,
                 videos_to_download, idx, langIdx, subtitle_file, attempts,
                 finalized, listCalls, cacheReads, created>>

\* the loop over the languages left running after a success
ContinueAfterSuccess == FALSE

\* download_orchestrator.py:270: return after the first language that succeeds
ReturnAfterSuccess == TRUE

\* download_orchestrator.py:259-270: the video is done with the path reported
Success(path) ==
  /\ finalized' = finalized \cup {path}
  /\ IF ReturnAfterSuccess THEN VideoDone(TRUE) /\ UNCHANGED langIdx
     ELSE NextLanguage

\* an error of the finalisation that leaves execute
FinalizeErrorAborts == Raise("FileProcessingError")

\* download_orchestrator.py:144-149: an OSError of rename or a FileProcessingError
\* leaves _process_video and is caught in the loop of execute
FinalizeError == VideoDone(FALSE)

\* download_orchestrator.py:230-249
RenameFile ==
  /\ pc = "rename"
  /\ LET final == GenerateFilename(cfg.enable_numbering, CurrentVideo,
                                   VideoTitle(CurrentVideo), subtitle_file.language,
                                   subtitle_file.format, CurrentIndex, progress.total)
     IN \/ /\ dir' = (dir \ {subtitle_file.file_path}) \cup {final}
           /\ subtitle_file' = [subtitle_file EXCEPT !.file_path = final]
           /\ created' = created \cup {final}
           /\ IF cfg.output_format # "none"
              THEN Goto("process") /\ UNCHANGED <<finalized, langIdx>>
              ELSE Success(final)
           /\ UNCHANGED cause
        \/ /\ FinalizeError
           /\ cause' = "rename"
           /\ UNCHANGED <<dir, subtitle_file, created, finalized, langIdx>>
  /\ UNCHANGED <<fixedVars, metadataCalls, failedBefore, waits, delays, cancelledAt, fetchLog,
                 cache, all_video_ids, downloaded_ids, videos_to_download,
                 idx, attempts, listCalls, cacheReads>>

\* a transformation that leaves its input file in the directory
TransformedKeepingInput(d, input, txt) == d \cup {txt}

\* file_processor.py:78-97: the text file is written, the .vtt file unlinked
Transformed(d, input, txt) == (d \ {input}) \cup {txt}

\* file_processor.py:18-108 called from _process_video (251-257)
ProcessFile ==
  /\ pc = "process"
  /\ LET input == subtitle_file.file_path
         txt == WithSuffixTxt(input)
     IN IF cfg.output_format = "txt" /\ Suffix(input) = <<".", "v", "t", "t">>
        THEN \/ /\ dir' = Transformed(dir, input, txt)
                /\ subtitle_file' = [subtitle_file EXCEPT !.file_path = txt]
                /\ created' = (created \ {input}) \cup {txt}
                /\ Success(txt)
                /\ UNCHANGED cause
             \/ /\ dir' \in {dir, dir \cup {txt}}
                /\ FinalizeError
                /\ cause' = "process"
                /\ UNCHANGED <<subtitle_file, created, finalized, langIdx>>
        ELSE /\ Success(input)
             /\ UNCHANGED <<dir, subtitle_file, created, cause>>
  /\ UNCHANGED <<fixedVars, metadataCalls, failedBefore, waits, delays, cancelledAt, fetchLog,
                 cache, all_video_ids, downloaded_ids, videos_to_download,
                 idx, attempts, listCalls, cacheReads>>

\* the values random.random() takes in the model: r / RandomSteps, r from 0
RandomSteps == 4

\* a draw that leaves out the lower end
UniformFromZero(a, b, r) == (b * r) \div RandomSteps

\* download_orchestrator.py:281: random.uniform(a, b) is a + (b - a) * random()
\* with random() in [0, 1), here in whole seconds
Uniform(a, b, r) == a + ((b - a) * r) \div RandomSteps

\* download_orchestrator.py:155-157 and 279-283, then the next turn of the loop
WaitRandomTime ==
  /\ pc = "wait"
  /\ waits' = waits + 1
  /\ \E r \in 0..(RandomSteps - 1) :
       delays' = Append(delays, Uniform(cfg.min_wait_seconds,
                                        cfg.max_wait_seconds, r))
  /\ IF idx < Len(videos_to_download)
     THEN /\ idx' = idx + 1
          /\ langIdx' = 1
          /\ subtitle_file' = NoSubtitle
          /\ attempts' = <<>>
          /\ finalized' = {}
          /\ failedBefore' = progress.failed
          /\ cause' = "none"
          /\ metadataCalls' = 0
          /\ Ctl("fetch", progress, outcome, exitCode, "none")
     ELSE /\ Return(progress, handled)
          /\ UNCHANGED <<idx, langIdx, subtitle_file, attempts, finalized,
                         failedBefore, cause, metadataCalls>>
  /\ UNCHANGED <<fixedVars, cancelledAt, fetchLog, cache, dir, all_video_ids,
                 downloaded_ids, videos_to_download, listCalls, cacheReads, created>>

\* the user interrupts the run: KeyboardInterrupt is no Exception, so it leaves
\* execute and is caught in run_download (cli.py:226-229)
Interrupt ==
  /\ pc \in {"cache", "network", "save", "filter", "fetch", "meta", "rename",
             "process", "wait"}
  /\ Raise("KeyboardInterrupt")
  /\ cancelledAt' = pc
  /\ UNCHANGED <<fixedVars, metadataCalls, failedBefore, waits, delays, fetchLog, cause,
                 cache, dir, all_video_ids, downloaded_ids,
                 videos_to_download, idx, langIdx, subtitle_file, attempts,
                 finalized, listCalls, cacheReads, created>>

\* Python s.split(","): the texts between the commas of s
RECURSIVE SplitComma(_)
SplitComma(s) ==
  IF \A i \in 1..Len(s) : s[i] # ","
  THEN <<s>>
  ELSE LET k == CHOOSE i \in 1..Len(s) :
                  s[i] = "," /\ \A j \in 1..(i - 1) : s[j] # ","
       IN <<SubSeq(s, 1, k - 1)>> \o SplitComma(SubSeq(s, k + 1, Len(s)))

\* config.py:96-102: the --lang text split at the commas, each part stripped,
\* the empty parts dropped
ParseLanguages(v) == StrippedLines(SplitComma(v))

\* domain/models.py:30-47: SubtitleLanguage.from_string lowers the code
FromString(lang) ==
  IF lang \in {<<"h", "i">>, <<"H", "I">>, <<"H", "i">>, <<"h", "I">>}
  THEN "hi"
  ELSE "en"

\* config.py:112-122: the list handed to the orchestrator (container.py:127)
GetLanguages(v) ==
  [i \in 1..Len(ParseLanguages(v)) |-> FromString(ParseLanguages(v)[i])]

\* values of --lang: the default "hi,en", and "en"
LanguageArguments == {<<"h", "i", ",", "e", "n">>, <<"e", "n">>}

\* a value of --lang that names a language twice: "en, EN"
RepeatedLanguageArgument == <<"e", "n", ",", " ", "E", "N">>

LanguagePreferences == {GetLanguages(v) : v \in LanguageArguments}

CacheContents ==
  {NoFile,
   [exists |-> TRUE, lines |-> <<>>],
   [exists |-> TRUE, lines |-> << <<" ">> >>],
   [exists |-> TRUE, lines |-> <<VidB, <<>>, VidA>>],
   [exists |-> TRUE, lines |-> <<VidA, BadLine>>]}

\* the settings that vary the processing of a video, without a cache file
ProcessingConfigs ==
  [enable_numbering : BOOLEAN, output_format : {"none", "txt"},
   languages : LanguagePreferences, cache_on : {FALSE},
   min_wait_seconds : {0}, max_wait_seconds : {0}]

\* the settings with a cache file configured
CacheConfigs ==
  [enable_numbering : {TRUE}, output_format : {"none"},
   languages : {<<"en">>}, cache_on : {TRUE},
   min_wait_seconds : {0}, max_wait_seconds : {0}]

\* the settings of a run whose --lang names a language twice
RepeatedLanguageConfigs ==
  [enable_numbering : {FALSE}, output_format : {"none"},
   languages : {GetLanguages(RepeatedLanguageArgument)}, cache_on : {FALSE},
   min_wait_seconds : {0}, max_wait_seconds : {0}]

\* an artifact of a video that is no longer in the channel
ForeignFile ==
  Rep("c", VIDEO_ID_LENGTH) \o <<"_", "T", ".", "e", "n", ".", "v", "t", "t">>

\* what the output directory may hold when the command is started
InitialDirs ==
  {{},
   {GenerateFilename(TRUE, VidA, VideoTitle(VidA), "hi", "vtt", 1, 2)},
   {TempFileName(VidB, "en", "vtt")},
   {ForeignFile}}

\* one run of the command
Init ==
  /\ fn = NoCall
  /\ cfg \in ProcessingConfigs \cup CacheConfigs \cup RepeatedLanguageConfigs
  /\ channel \in Listings
  /\ cache \in IF cfg.cache_on THEN CacheContents ELSE {NoFile}
  /\ dir \in InitialDirs
  /\ runsLeft = 1
  /\ log_file = <<>>
  /\ force = FALSE
  /\ pc = "idle"
  /\ cacheAtStart = cache
  /\ dirAtStart = dir
  /\ RunReset

\* the channels of the repeated runs
RerunChannels == {<<VidA, VidB>>, <<VidB>>}

\* the command run again and again on an output directory that starts empty
InitRerun ==
  /\ fn = NoCall
  /\ cfg \in [enable_numbering : BOOLEAN, output_format : {"txt"},
              languages : {<<"hi", "en">>}, cache_on : {FALSE},
   min_wait_seconds : {0}, max_wait_seconds : {0}]
  /\ channel \in RerunChannels
  /\ cache = NoFile
  /\ dir = {}
  /\ runsLeft = MaxRuns
  /\ log_file = <<>>
  /\ force = FALSE
  /\ pc = "idle"
  /\ cacheAtStart = cache
  /\ dirAtStart = dir
  /\ RunReset

Next ==
  \/ StartRun
  \/ GetCachedVideoIds
  \/ GetChannelVideoIds
  \/ SaveVideoIds
  \/ FilterDownloaded
  \/ DownloadSubtitle
  \/ GetVideoMetadata
  \/ RenameFile
  \/ ProcessFile
  \/ WaitRandomTime
  \/ Interrupt

Spec == Init /\ [][Next]_vars

SpecRerun == InitRerun /\ [][Next]_vars

\* one run on an empty output directory, for the properties of progress
InitLive ==
  /\ fn = NoCall
  /\ cfg = [enable_numbering |-> TRUE, output_format |-> "txt",
            languages |-> <<"en">>, cache_on |-> FALSE,
            min_wait_seconds |-> 0, max_wait_seconds |-> 0]
  /\ channel \in Listings
  /\ cache = NoFile
  /\ dir = {}
  /\ runsLeft = 1
  /\ log_file = <<>>
  /\ force = FALSE
  /\ pc = "idle"
  /\ cacheAtStart = cache
  /\ dirAtStart = dir
  /\ RunReset

\* the largest wait time drawn for --min-wait and --max-wait besides the defaults
MaxWait == 3

\* cli.py:72-86: the defaults of --min-wait and --max-wait
DefaultWaitArguments == <<5, 15>>

\* values of --min-wait and --max-wait, the accepted ones and the others
WaitArguments ==
  (((-1)..MaxWait) \X ((-1)..MaxWait)) \cup {DefaultWaitArguments}

\* config.py:38-47 and 87-94: both at least 0 (ge=0.0), max_wait not below min_wait
ValidateWaitTimes(min_wait, max_wait) ==
  min_wait >= 0 /\ max_wait >= 0 /\ ~(max_wait < min_wait)

\* one run under each accepted pacing, on an empty output directory
InitPaced ==
  /\ fn = NoCall
  /\ \E w \in WaitArguments :
       /\ ValidateWaitTimes(w[1], w[2])
       /\ cfg = [enable_numbering |-> TRUE, output_format |-> "txt",
                 languages |-> <<"en">>, cache_on |-> FALSE,
                 min_wait_seconds |-> w[1], max_wait_seconds |-> w[2]]
  /\ channel \in Listings
  /\ cache = NoFile
  /\ dir = {}
  /\ runsLeft = 1
  /\ log_file = <<>>
  /\ force = FALSE
  /\ pc = "idle"
  /\ cacheAtStart = cache
  /\ dirAtStart = dir
  /\ RunReset

SpecPaced == InitPaced /\ [][Next]_vars

\* the steps of a run: each call of the run returns or raises (the tool runs
\* under CommandExecutor's timeout, the wait is a finite sleep)
Step ==
  \/ GetCachedVideoIds
  \/ GetChannelVideoIds
  \/ SaveVideoIds
  \/ FilterDownloaded
  \/ DownloadSubtitle
  \/ GetVideoMetadata
  \/ RenameFile
  \/ ProcessFile
  \/ WaitRandomTime

SpecLive == InitLive /\ [][Next]_vars /\ WF_vars(Step)

(***************************************************************************)
(* sub_downloader/main.py: SubtitleDownloader, the downloader that records *)
(* each video in the run log download_log.json, and the directory scan of  *)
(* sub_downloader/state.py.                                                *)
(***************************************************************************)
\* main.py:191-193 _sanitize_filename
LegacySanitizeFilename(text) ==
  LET safe_text == Strip(SelectSeq(text, LAMBDA c : c \notin INVALID_CHARS_PATTERN))
  IN IF Len(safe_text) > MAX_TITLE_LENGTH
     THEN SubSeq(safe_text, 1, MAX_TITLE_LENGTH)
     ELSE safe_text

\* main.py:195-212 _rename_file: the final name of a temp file with suffix ext
LegacyFinalName(numbering_enabled, vid, title, lang, ext, current_index, total) ==
  LET base_name == vid \o <<"_">> \o LegacySanitizeFilename(title)
      numbered == IF numbering_enabled
                  THEN ZFill(Str(current_index), Len(Str(total)))
                         \o <<"_">> \o base_name
                  ELSE base_name
  IN numbered \o <<".">> \o LangText(lang) \o <<".">> \o FormatText(ext)

\* main.py:72-90 _load_downloaded_ids: the ids of the entries with status success
LoadDownloadedIds(log) ==
  {log[k].video_id : k \in {j \in 1..Len(log) : log[j].status = "success"}}

\* main.py:40-45 _log_entry: a line is appended
LogEntry(vid, status) ==
  log_file' = Append(log_file, [video_id |-> vid, status |-> status])

\* what the steps of the log-writing downloader leave as they are
legacyFixed ==
  <<fn, cfg, channel, cache, force, progress, subtitle_file, outcome, exitCode,
    attempts, finalized, handled, listCalls, cacheReads, cacheAtStart,
    dirAtStart, failedBefore, waits, delays, cancelledAt, fetchLog, cause,
    metadataCalls, created>>

\* main.py:294-313 run, up to the download queue
LegacyRun ==
  /\ pc \in {"idle", "done"}
  /\ runsLeft > 0
  /\ runsLeft' = runsLeft - 1
  /\ \E toolFails \in BOOLEAN :
       LET done == LoadDownloadedIds(log_file)
           listed == IF toolFails THEN <<>> ELSE StrippedLines(channel)
           todo == SelectSeq(listed, LAMBDA v : v \notin done)
       IN /\ downloaded_ids' = done
          /\ all_video_ids' = listed
          /\ videos_to_download' = (IF listed = <<>> THEN <<>> ELSE todo)
          /\ IF toolFails THEN LogEntry(<<>>, "error") ELSE UNCHANGED log_file
          /\ IF listed = <<>> \/ todo = <<>>
             THEN pc' = "done" /\ idx' = 0 /\ langIdx' = 0
             ELSE pc' = "download_subtitle" /\ idx' = 1 /\ langIdx' = 1
  /\ UNCHANGED <<legacyFixed, dir>>

\* main.py:278-292: the queue goes on to the next video or ends
LegacyVideoOver ==
  IF idx < Len(videos_to_download)
  THEN pc' = pc /\ idx' = idx + 1 /\ langIdx' = 1
  ELSE pc' = "done" /\ UNCHANGED <<idx, langIdx>>

\* main.py:227-276 download_subtitle: one turn of its loop over lang_prefs
LegacyDownloadSubtitle ==
  /\ pc = "download_subtitle"
  /\ \E reply \in {"notavail", "exists", "fatal_error"},
        wrote \in BOOLEAN, renameFails \in BOOLEAN :
       LET vid == videos_to_download[idx]
           lang == cfg.languages[langIdx]
           temp_file == TempFileName(vid, lang, "vtt")
           written == IF wrote THEN dir \cup {temp_file} ELSE dir
           final_name == LegacyFinalName(cfg.enable_numbering, vid, VideoTitle(vid),
                                         lang, "vtt", idx, Len(all_video_ids))
       IN /\ wrote => reply = "exists"
          /\ renameFails => (reply = "exists" /\ temp_file \in written)
          /\ IF reply = "fatal_error"
             THEN LogEntry(vid, "error") /\ LegacyVideoOver /\ dir' = written
             ELSE IF reply = "exists" /\ temp_file \in written
             THEN IF renameFails
                  THEN /\ dir' = written
                       /\ LogEntry(vid, "error")
                       /\ LegacyVideoOver
                  ELSE /\ dir' = (written \ {temp_file}) \cup {final_name}
                       /\ LogEntry(vid, "success")
                       /\ LegacyVideoOver
             ELSE /\ dir' = written
                  /\ IF langIdx < Len(cfg.languages)
                     THEN /\ langIdx' = langIdx + 1
                          /\ UNCHANGED <<pc, idx, log_file>>
                     ELSE LogEntry(vid, "no_subs_found") /\ LegacyVideoOver
  /\ UNCHANGED <<legacyFixed, runsLeft, all_video_ids, downloaded_ids,
                 videos_to_download>>

\* the log-writing downloader run again and again, from an empty directory
InitLog ==
  /\ fn = NoCall
  /\ cfg \in [enable_numbering : BOOLEAN, output_format : {"none"},
              languages : {<<"hi", "en">>}, cache_on : {FALSE},
              min_wait_seconds : {0}, max_wait_seconds : {0}]
  /\ channel \in Listings
  /\ cache = NoFile
  /\ dir = {}
  /\ runsLeft = MaxRuns
  /\ log_file = <<>>
  /\ force = FALSE
  /\ pc = "idle"
  /\ cacheAtStart = cache
  /\ dirAtStart = dir
  /\ RunReset

NextLog == LegacyRun \/ LegacyDownloadSubtitle

SpecLog == InitLog /\ [][NextLog]_vars

(***************************************************************************)
(* What the properties observe.                                            *)
(***************************************************************************)
LastAttempt == attempts[Len(attempts)]

Acquired == attempts # <<>> /\ LastAttempt.result = "acquired"

\* the language part of an artifact's name: the text between its last two dots
LanguageSuffix(name) ==
  LET stem == SubSeq(name, 1, LastDot(name) - 1)
  IN SubSeq(stem, LastDot(stem) + 1, Len(stem))

\* execute got past channel resolution with a snapshot
Resolved ==
  \/ pc \in {"filter", "fetch", "meta", "rename", "process", "wait"}
  \/ outcome = "returned"

\* the process-level failures of a fetch-subtitle invocation
Fatal == {"exit", "malformed", "timeout"}

\* d holds an artifact of video v, under some index, language and format
HasArtifact(d, v) ==
  \E i \in 1..(Len(channel) + Cardinality(d)), lang \in {"hi", "en"},
     fmt \in {"vtt", "srt", "txt"} :
       GenerateFilename(cfg.enable_numbering, v, VideoTitle(v), lang, fmt, i,
                        Len(channel)) \in d

\* d holds an artifact of every video of the channel
Complete(d) == \A k \in 1..Len(channel) : HasArtifact(d, channel[k])

PopulatedCache(c) == c.exists /\ StrippedLines(c.lines) # <<>>

\* the steps of the loop over the videos (the Processing state)
Processing == {"fetch", "meta", "rename", "process", "wait"}

\* a name the subtitle downloader gives to a temporary download file
IsTempFile(name) ==
  \E v \in Videos, lang \in {"hi", "en"}, ext \in {"vtt", "srt"} :
    name = TempFileName(v, lang, ext)

\* every video of the to-download list has been attempted, in list order
AllAttemptedInOrder ==
  /\ {fetchLog[k].index : k \in 1..Len(fetchLog)} = 1..Len(videos_to_download)
  /\ \A k \in 1..Len(fetchLog) :
       fetchLog[k].video = videos_to_download[fetchLog[k].index]
  /\ \A j, k \in 1..Len(fetchLog) :
       j < k => fetchLog[j].index <= fetchLog[k].index

\* the value of a digit character
DigitValue(c) == CHOOSE d \in 0..9 : DigitChar[d + 1] = c

\* a sorts before b as text, for texts of digits
LexLess(a, b) ==
  \E k \in 1..Len(a) :
    /\ k <= Len(b)
    /\ \A m \in 1..(k - 1) : a[m] = b[m]
    /\ DigitValue(a[k]) < DigitValue(b[k])

\* the steps of the finalisation whose errors are filesystem errors
FinalizeSteps == {"missing", "rename", "process"}

\* C1: within one video at most one language succeeds: after a fetch that
\* acquired a track no further fetch is made for the video, the video yields
\* at most one artifact, and a video that is processed after an acquired
\* fetch yields exactly one artifact, in the language acquired, which is the
\* first of the preference list that the tool did not report as not available.
C1_FirstSuccessStops ==
  /\ \A i \in 1..Len(attempts) :
       attempts[i].result = "acquired" =>
         /\ i = Len(attempts)
         /\ \A j \in 1..(i - 1) : attempts[j].result = "notavail"
  /\ Cardinality(finalized) <= 1
  /\ \A p \in finalized :
       Acquired /\ LanguageSuffix(p) = LangText(LastAttempt.language)
  /\ (handled = "processed" /\ Acquired) => Cardinality(finalized) = 1

\* the first of two preferred languages was acquired and the video is done
\* with one artifact and one fetch
C1_Witness ==
  /\ cfg.languages = <<"hi", "en">>
  /\ handled = "processed"
  /\ Len(attempts) = 1
  /\ Acquired
  /\ \E p \in finalized : finalized = {p} /\ LanguageSuffix(p) = <<"h", "i">>

\* C2: the fetch calls of a video follow the preference list in its order, the
\* k-th is made only after every earlier one returned not-available, and an
\* artifact carries the language of the last call; with [hi, en] and only en
\* available there are exactly the two calls hi, en and an en artifact.
C2_FallbackOrder ==
  /\ Len(attempts) <= Len(cfg.languages)
  /\ \A i \in 1..Len(attempts) : attempts[i].language = cfg.languages[i]
  /\ \A i \in 1..(Len(attempts) - 1) : attempts[i].result = "notavail"
  /\ \A p \in finalized :
       LanguageSuffix(p) = LangText(cfg.languages[Len(attempts)])
  /\ (/\ cfg.languages = <<"hi", "en">>
      /\ handled = "processed"
      /\ Len(attempts) = 2
      /\ Acquired)
       => \E p \in finalized : finalized = {p} /\ LanguageSuffix(p) = <<"e", "n">>

\* hi was not available, en was acquired, and the video is done
C2_Witness ==
  /\ cfg.languages = <<"hi", "en">>
  /\ handled = "processed"
  /\ Len(attempts) = 2
  /\ attempts[1].language = "hi" /\ attempts[1].result = "notavail"
  /\ attempts[2].language = "en" /\ attempts[2].result = "acquired"
  /\ \E p \in finalized : LanguageSuffix(p) = <<"e", "n">>

\* C3: a fetch that ends in a process-level failure is the last fetch of its
\* video, the video is counted in failed_videos and not in processed_videos,
\* and the video has no artifact.
C3_FatalAborts ==
  \A i \in 1..Len(attempts) :
    attempts[i].result \in Fatal =>
      /\ i = Len(attempts)
      /\ handled = "failed"
      /\ pc \in {"wait", "done"}
      /\ progress.failed = failedBefore + 1
      /\ finalized = {}

\* the first of two languages ended in malformed output and the video is over
C3_Witness ==
  /\ cfg.languages = <<"hi", "en">>
  /\ Len(attempts) = 1
  /\ LastAttempt.result = "malformed"
  /\ handled = "failed"
  /\ progress.failed = 1

\* C4: no fetch-subtitle call of a run is for a VideoId of the set the
\* Completion Tracker returned for the run.
C4_NoFetchForDownloaded ==
  /\ \A i \in 1..Len(attempts) : attempts[i].video \notin downloaded_ids
  /\ \A i \in 1..Len(videos_to_download) : videos_to_download[i] \notin downloaded_ids

\* a video of the channel was found downloaded and another one is fetched
C4_Witness ==
  /\ attempts # <<>>
  /\ \E i \in 1..Len(all_video_ids) : all_video_ids[i] \in downloaded_ids

\* C5: a run started on an output directory that holds an artifact of every
\* video of the channel creates no file.
C5_SecondRunCreatesNothing == (pc # "idle" /\ Complete(dirAtStart)) => created = {}

\* the same with numbering enabled
C5_NumberedRunCreatesNothing ==
  (pc # "idle" /\ cfg.enable_numbering /\ Complete(dirAtStart)) =>
    (created = {} /\ attempts = <<>>)

\* C6: for every valid VideoId, title, language and numbering setting, the
\* tracker's pattern applied to the generated filename recovers the VideoId.
C6_RoundTrip == fn.op = "scan" => fn.parsed = fn.vid

\* the round trip with numbering enabled
C6_RoundTripNumbered == (fn.op = "scan" /\ fn.numbering) => fn.parsed = fn.vid

\* C7: without force-refresh and with a populated cache file a run makes no
\* network list call, leaves the cache file as it was, and its channel
\* snapshot is the identifiers of the cache file.
C7_CacheHit ==
  (pc # "idle" /\ ~force /\ PopulatedCache(cacheAtStart)) =>
    /\ listCalls = 0
    /\ cache = cacheAtStart
    /\ Resolved => all_video_ids = StrippedLines(cacheAtStart.lines)

\* a run went through its videos on the snapshot of the cache
C7_Witness ==
  /\ ~force
  /\ PopulatedCache(cacheAtStart)
  /\ outcome = "returned"
  /\ attempts # <<>>
  /\ all_video_ids = <<VidB, VidA>>

\* C8: with force-refresh a run never reads the cache, makes the network list
\* call (once, unless it is interrupted before), and once the snapshot is saved the cache file holds exactly the
\* identifiers the call returned, in listing order, whatever it held before.
C8_ForceRefresh ==
  (pc # "idle" /\ force) =>
    /\ cacheReads = 0
    /\ listCalls <= 1
    /\ (pc # "network" /\ outcome # "KeyboardInterrupt") => listCalls = 1
    /\ Resolved =>
         /\ all_video_ids = StrippedLines(channel)
         /\ cfg.cache_on => cache = [exists |-> TRUE, lines |-> all_video_ids]

\* a populated cache was replaced by a listing that differs from it
C8_Witness ==
  /\ force
  /\ Resolved
  /\ PopulatedCache(cacheAtStart)
  /\ cache # cacheAtStart
  /\ cache.lines = channel
  /\ channel # <<>>

\* C9: a fetch whose track is reported but whose temp file is missing does
\* not fail the video while a later preferred language is left to try.
C9_MissingTempFileContinues ==
  (/\ attempts # <<>>
   /\ LastAttempt.result = "missing"
   /\ Len(attempts) < Len(cfg.languages))
    => (handled # "failed" /\ progress.failed = failedBefore)

\* C10: a run whose listing call erred or returned no entry ends with a
\* channel-fetch error and a non-zero exit code, without a fetch.
C10_EmptyListingIsError ==
  (/\ pc = "done"
   /\ listCalls = 1
   /\ all_video_ids = <<>>
   /\ outcome \in {"returned", "VideoFetchError"})
    => (outcome = "VideoFetchError" /\ exitCode # 0 /\ attempts = <<>>)

\* the half of it that is about a listing call that erred
C10_ListingErrorIsTerminal ==
  outcome = "VideoFetchError" => (pc = "done" /\ exitCode = 1 /\ attempts = <<>>)

\* C11: a run never ends with a cache error: an unreadable, unusable or
\* unwritable cache makes the run fall back to the network listing and go on.
C11_CacheErrorNotTerminal == outcome # "CacheError"

\* C12: the paced wait is made once between consecutive videos and nowhere
\* else: the waits completed are the videos already left behind, a wait is
\* only entered after a video was handled and while another one follows, a
\* fetch for video i comes after i - 1 waits, and a run that returns over n
\* videos has made max(0, n - 1) waits.
C12_WaitsBetweenVideos ==
  /\ waits = (IF idx = 0 THEN 0 ELSE idx - 1)
  /\ pc = "wait" => (handled # "none" /\ idx < Len(videos_to_download))
  /\ \A k \in 1..Len(fetchLog) : fetchLog[k].index - 1 <= waits
  /\ outcome = "returned" =>
       waits = (IF videos_to_download = <<>> THEN 0
                ELSE Len(videos_to_download) - 1)

\* a run over two videos returned after one wait, and its last video took
\* two language attempts
C12_Witness ==
  /\ outcome = "returned"
  /\ Len(videos_to_download) = 2
  /\ waits = 1
  /\ Len(attempts) = 2

\* C13: a cancellation while the run is in Processing ends the run with
\* execute returning the partial progress to its caller.
C13_CancelReturnsPartial == cancelledAt \in Processing => outcome = "returned"

\* C14: a cancellation during the paced wait stops the run: the wait is not
\* completed and no fetch is made for the next video or a later one.
C14_CancelInWaitStops ==
  cancelledAt = "wait" =>
    /\ pc = "done"
    /\ idx < Len(videos_to_download)
    /\ waits = idx - 1
    /\ \A k \in 1..Len(fetchLog) : fetchLog[k].index <= idx

\* the run was cancelled in the wait after its first video
C14_Witness ==
  /\ cancelledAt = "wait"
  /\ fetchLog # <<>>
  /\ idx = 1
  /\ Len(videos_to_download) = 2

\* C15: a run cancelled at the paced wait between two videos has left no
\* temporary download file in the output directory, and its cache file is
\* unchanged or holds the complete listing.
C15_CancelLeavesNoTempFile ==
  cancelledAt = "wait" =>
    /\ \A f \in dir \ dirAtStart : ~IsTempFile(f)
    /\ cache \in {cacheAtStart, CacheFileContent(all_video_ids)}

\* the half of it that is about the cache file
C15_CancelLeavesCacheWhole ==
  cancelledAt = "wait" => cache \in {cacheAtStart, CacheFileContent(all_video_ids)}

\* C16: a filesystem error while a video is finalised (temp file missing,
\* rename fails, transformation fails) fails that video only: it is counted
\* in failed_videos, no error leaves execute, and the run waits for the next
\* video or, after the last one, returns.
C16_FinalizeErrorAbandonsVideo ==
  cause \in FinalizeSteps =>
    /\ handled = "failed"
    /\ progress.failed = failedBefore + 1
    /\ outcome \in {"none", "returned", "KeyboardInterrupt"}
    /\ (outcome = "none" /\ idx < Len(videos_to_download)) => pc = "wait"
    /\ (cancelledAt = "none" /\ idx = Len(videos_to_download)) =>
         outcome = "returned"

\* the rename of the first of two videos failed and the run waits for the next
C16_Witness ==
  /\ cause = "rename"
  /\ pc = "wait"
  /\ idx = 1
  /\ progress.failed = 1

\* C17: a run that resolved its channel and is not cancelled terminates, and
\* it ends by execute returning with every video of the to-download list
\* attempted, in list order, whatever happened to the videos before.
C17_EveryVideoAttempted ==
  /\ [](( idx >= 1 /\ pc = "done" /\ cancelledAt = "none") =>
          (outcome = "returned" /\ AllAttemptedInOrder))
  /\ (pc = "fetch" ~> pc = "done")

\* a run over two videos returned although its first video failed
C17_Witness ==
  /\ outcome = "returned"
  /\ Len(videos_to_download) = 2
  /\ progress.failed = 1
  /\ progress.processed = 1
  /\ handled = "processed"

\* C18: within one run the fetch-subtitle tool is invoked at most once for a
\* (VideoId, language) pair.
C18_NoRetries ==
  \A j, k \in 1..Len(fetchLog) :
    (fetchLog[j].video = fetchLog[k].video
       /\ fetchLog[j].language = fetchLog[k].language) => j = k

\* the same for the positions of the two lists: no position of the
\* to-download list is gone back to, and for a position no more fetches are
\* made than the preference list has entries
C18_NoRetriesPerPosition ==
  /\ \A j, k \in 1..Len(fetchLog) :
       j < k => fetchLog[j].index <= fetchLog[k].index
  /\ \A i \in 1..Len(videos_to_download) :
       Cardinality({k \in 1..Len(fetchLog) : fetchLog[k].index = i})
         <= Len(cfg.languages)

\* C19: a run that completes exits non-zero exactly when failed_videos is not
\* zero, and its failures kept no other video from being handled: every video
\* of the list was attempted and counted, and every file the run finalised is
\* in the output directory.
C19_ExitCodeSignalsFailures ==
  outcome = "returned" =>
    /\ exitCode = (IF progress.failed > 0 THEN 1 ELSE 0)
    /\ created \subseteq dir
    /\ progress.processed + progress.failed = Len(videos_to_download)
    /\ AllAttemptedInOrder

\* a run completed with one video failed and the artifact of another written
C19_Witness ==
  /\ outcome = "returned"
  /\ progress.failed = 1
  /\ progress.processed = 1
  /\ exitCode = 1
  /\ created # {}
  /\ handled = "failed"

\* C20: for indexes i < j of a channel of total videos, both prefixes have
\* len(str(total)) digits and sort as text in the order of i and j; 7 of 123
\* is 007 and 123 of 123 is 123.
C20_PaddedPrefixOrder ==
  fn.op = "prefix" =>
    /\ Len(fn.prefix) = Len(Str(fn.total))
    /\ Len(fn.otherPrefix) = Len(Str(fn.total))
    /\ \A k \in 1..Len(fn.prefix) : fn.prefix[k] \in Digits
    /\ \A k \in 1..Len(fn.otherPrefix) : fn.otherPrefix[k] \in Digits
    /\ LexLess(fn.prefix, fn.otherPrefix)
    /\ (fn.index = 7 /\ fn.total = 123) => fn.prefix = <<"0", "0", "7">>
    /\ (fn.other = 123 /\ fn.total = 123) => fn.otherPrefix = <<"1", "2", "3">>

\* index 7 and index 123 of a channel of 123 videos
C20_Witness ==
  /\ fn.op = "prefix"
  /\ fn.index = 7
  /\ fn.other = 123
  /\ fn.total = 123
  /\ fn.prefix = <<"0", "0", "7">>

\* C21: the sequence index execute gives to the video it is handling is the
\* video's 1-based position in the channel snapshot, whichever videos were
\* skipped, and it never exceeds the snapshot's total.
C21_IndexIsSnapshotPosition ==
  (idx >= 1 /\ pc \in Processing) =>
    /\ CurrentIndex <= progress.total
    /\ all_video_ids[CurrentIndex] = CurrentVideo

\* C22: a listing fetched fresh with a cache file configured is in the cache
\* file, complete, before the first fetch-subtitle call of the run and from
\* then on: while the run processes its videos, and after a run that was
\* stopped while it did.
C22_ListingSavedBeforeFetch ==
  (/\ listCalls = 1
   /\ cfg.cache_on
   /\ (pc \in Processing \/ fetchLog # <<>> \/ cancelledAt \in Processing))
    => /\ all_video_ids = StrippedLines(channel)
       /\ cache = CacheFileContent(all_video_ids)

\* a run that listed two videos was stopped while it handled the first, and
\* the cache file holds the listing it did not hold before
C22_Witness ==
  /\ listCalls = 1
  /\ cfg.cache_on
  /\ cancelledAt = "meta"
  /\ idx = 1
  /\ Len(channel) = 2
  /\ cache # cacheAtStart
  /\ cache.lines = channel

\* C23: a network listing that yields no identifier is not persisted: the run
\* leaves an existing cache file as it was and creates no cache file.
C23_EmptyListingNotSaved ==
  (listCalls = 1 /\ StrippedLines(channel) = <<>>) => cache = cacheAtStart

\* C24: a run without force-refresh that finds a cache file with no non-blank
\* line takes it for a cache miss: once the file is read the run goes on to
\* the network list call, it never returns without having made it, and the
\* snapshot it processes is the network listing.
C24_EmptyCacheIsMiss ==
  (/\ pc # "idle"
   /\ ~force
   /\ cfg.cache_on
   /\ cacheAtStart.exists
   /\ StrippedLines(cacheAtStart.lines) = <<>>)
    => /\ (/\ pc # "cache"
           /\ cancelledAt \notin {"cache", "network"}
           /\ outcome # "CacheError")
             => (pc = "network" \/ listCalls = 1)
       /\ Resolved =>
            /\ listCalls = 1
            /\ all_video_ids = StrippedLines(channel)
       /\ \A k \in 1..Len(fetchLog) :
            \E i \in 1..Len(channel) : fetchLog[k].video = channel[i]

\* a cache file of one blank line: the run listed the channel on the network
\* and went through its videos
C24_Witness ==
  /\ ~force
  /\ cfg.cache_on
  /\ cacheAtStart = [exists |-> TRUE, lines |-> << <<" ">> >>]
  /\ listCalls = 1
  /\ outcome = "returned"
  /\ fetchLog # <<>>
  /\ all_video_ids = channel

\* C25: on a cache hit the snapshot is the non-blank lines of the cache file,
\* in file order, whatever these lines are: a run without force-refresh that
\* has read a cache file with a non-blank line (the read itself not failing)
\* goes on with exactly these lines as its snapshot.
C25_CacheHitVerbatim ==
  (/\ pc \notin {"idle", "cache"}
   /\ ~force
   /\ cfg.cache_on
   /\ PopulatedCache(cacheAtStart)
   /\ cancelledAt # "cache"
   /\ cause # "cache_read")
    => /\ outcome # "CacheError"
       /\ all_video_ids = StrippedLines(cacheAtStart.lines)

\* the half of it that is about cache files whose lines all have 11 characters
C25_CacheHitOfValidIds ==
  (/\ pc \notin {"idle", "cache"}
   /\ ~force
   /\ cfg.cache_on
   /\ PopulatedCache(cacheAtStart)
   /\ \A i \in 1..Len(StrippedLines(cacheAtStart.lines)) :
        VideoIdValid(StrippedLines(cacheAtStart.lines)[i])
   /\ cancelledAt # "cache"
   /\ cause # "cache_read")
    => /\ outcome # "CacheError"
       /\ all_video_ids = StrippedLines(cacheAtStart.lines)

\* C26: the preference list the acquisition loop walks has no language code
\* twice.
C26_NoDuplicateLanguages ==
  pc = "fetch" =>
    \A i, j \in 1..Len(cfg.languages) :
      cfg.languages[i] = cfg.languages[j] => i = j

\* the name the current video's file is renamed to, before any transformation
RenamedFile ==
  GenerateFilename(cfg.enable_numbering, CurrentVideo, VideoTitle(CurrentVideo),
                   subtitle_file.language, subtitle_file.format, CurrentIndex,
                   progress.total)

\* C27: with TXT requested, a video processed from a .vtt file has its
\* renamed .vtt file gone, the .txt file of the same stem in the directory,
\* and the .txt path reported; a video processed from a file of another
\* extension has the renamed file in place and reported as it is.
C27_TransformReplacesFile ==
  (handled = "processed" /\ Acquired /\ cfg.output_format = "txt") =>
    IF subtitle_file.format = "vtt"
    THEN /\ RenamedFile \notin dir
         /\ WithSuffixTxt(RenamedFile) \in dir
         /\ Suffix(WithSuffixTxt(RenamedFile)) = <<".", "t", "x", "t">>
         /\ finalized = {WithSuffixTxt(RenamedFile)}
         /\ subtitle_file.file_path = WithSuffixTxt(RenamedFile)
    ELSE /\ RenamedFile \in dir
         /\ finalized = {RenamedFile}
         /\ subtitle_file.file_path = RenamedFile

\* a video acquired as .vtt was processed with TXT requested
C27_Witness ==
  /\ handled = "processed"
  /\ Acquired
  /\ cfg.output_format = "txt"
  /\ subtitle_file.format = "vtt"
  /\ subtitle_file.file_path \in dir
  /\ Suffix(subtitle_file.file_path) = <<".", "t", "x", "t">>

\* a video acquired as .srt was processed with TXT requested
C27_WitnessNotTransformable ==
  /\ handled = "processed"
  /\ cfg.output_format = "txt"
  /\ subtitle_file.format = "srt"
  /\ finalized = {RenamedFile}

\* C28: a fetch-subtitle call that times out is the last fetch of its video
\* and fails this video only: the video is counted in failed_videos, no later
\* language is tried for it, no error leaves execute, and the run waits for
\* the next video or, after the last one, returns.
C28_TimeoutFailsVideoOnly ==
  \A i \in 1..Len(attempts) :
    attempts[i].result = "timeout" =>
      /\ i = Len(attempts)
      /\ handled = "failed"
      /\ progress.failed = failedBefore + 1
      /\ progress.processed + progress.failed = idx
      /\ finalized = {}
      /\ outcome \in {"none", "returned", "KeyboardInterrupt"}
      /\ (outcome = "none" /\ idx < Len(videos_to_download)) => pc = "wait"
      /\ (cancelledAt = "none" /\ idx = Len(videos_to_download)) =>
           outcome = "returned"

\* the first language of the first of two videos timed out: the second
\* language is not tried and the run waits for the second video
C28_Witness ==
  /\ cfg.languages = <<"hi", "en">>
  /\ Len(attempts) = 1
  /\ LastAttempt.result = "timeout"
  /\ idx = 1
  /\ Len(videos_to_download) = 2
  /\ pc = "wait"
  /\ progress.failed = 1

\* the videos of the to-download list the loop has handled so far
HandledCount ==
  IF idx = 0 THEN 0 ELSE IF handled = "none" THEN idx - 1 ELSE idx

\* C29: the progress is updated once per video handled: a video adds one to
\* exactly one of processed_videos and failed_videos, total_videos and
\* skipped_videos stay what they were set to before the loop, and after k
\* videos have been handled processed_videos + failed_videos = k.
C29_ProgressCountsEachVideoOnce ==
  /\ progress.processed + progress.failed = HandledCount
  /\ progress.failed = failedBefore + (IF handled = "failed" THEN 1 ELSE 0)
  /\ progress.processed =
       (HandledCount - failedBefore) - (IF handled = "failed" THEN 1 ELSE 0)
  /\ idx >= 1 =>
       /\ progress.total = Len(all_video_ids)
       /\ progress.skipped = Cardinality(downloaded_ids)

\* a run over two new videos, one file of another video in the directory:
\* one video was processed, one failed
C29_Witness ==
  /\ pc = "done"
  /\ idx = 2
  /\ handled = "processed"
  /\ progress = [total |-> 2, processed |-> 1, skipped |-> 1, failed |-> 1]

\* C30: under every accepted pacing every delay of the run lies in
\* [min_wait, max_wait]; a delay is made only while another video follows,
\* so a run that returns over n videos has made max(0, n - 1) delays and
\* none after its last video.
C30_DelaysWithinBounds ==
  /\ \A k \in 1..Len(delays) :
       cfg.min_wait_seconds <= delays[k] /\ delays[k] <= cfg.max_wait_seconds
  /\ Len(delays) = waits
  /\ Len(delays) = (IF idx = 0 THEN 0 ELSE idx - 1)
  /\ pc = "wait" => idx < Len(videos_to_download)
  /\ outcome = "returned" =>
       Len(delays) = (IF videos_to_download = <<>> THEN 0
                      ELSE Len(videos_to_download) - 1)

\* with the default pacing of 5 to 15 seconds a run over two videos returned
\* after one delay, of 12 seconds
C30_Witness ==
  /\ cfg.min_wait_seconds = 5
  /\ cfg.max_wait_seconds = 15
  /\ outcome = "returned"
  /\ Len(videos_to_download) = 2
  /\ delays = <<12>>

\* C31: VideoId(value) is constructed exactly when value has 11 characters,
\* all of them of [A-Za-z0-9_-].
C31_VideoIdChecksAlphabet ==
  fn.op = "VideoId" =>
    (fn.constructed <=>
       (/\ Len(fn.value) = VIDEO_ID_LENGTH
        /\ \A i \in 1..Len(fn.value) : IdChar(fn.value[i])))

\* the half of it that is about the length
C31_VideoIdChecksLength ==
  fn.op = "VideoId" => (fn.constructed <=> Len(fn.value) = VIDEO_ID_LENGTH)

\* the invocations of the extraction tool made for the current video
ToolCalls == Len(attempts) + metadataCalls

\* C32: for the video being handled the tool is invoked once per language
\* attempted and for nothing else.
C32_OnlyFetchCalls == ToolCalls = Len(attempts)

\* the ids whose last entry in the log has status success
LastStatusSuccess(log) ==
  {log[k].video_id :
     k \in {j \in 1..Len(log) :
              /\ log[j].status = "success"
              /\ \A m \in (j + 1)..Len(log) : log[m].video_id # log[j].video_id}}

\* C33: for every log the downloader has written, the ids the log replay
\* returns are the ids whose last recorded status is success.
C33_ReplayIsLastStatus ==
  LoadDownloadedIds(log_file) = LastStatusSuccess(log_file)

\* the same for channels that list no video twice
C33_ReplayOfDistinctListing ==
  (\A i, j \in 1..Len(channel) : channel[i] = channel[j] => i = j)
    => LoadDownloadedIds(log_file) = LastStatusSuccess(log_file)

\* C34: between the runs of the log-writing downloader the filename scan of
\* the output directory and the replay of the log recover the same ids.
C34_ScanEqualsReplay ==
  pc \in {"idle", "done"} =>
    GetDownloadedVideoIds(dir) = LoadDownloadedIds(log_file)

\* C35: an id is in the Completion Tracker's result only if the output
\* directory holds a file of that id that is no temporary download file.
C35_TempFileIsNotDone ==
  \A v \in downloaded_ids :
    \E f \in dir : ~IsTempFile(f) /\ MatchVideoId(f) = v

\* the sequence-number prefix of a numbered artifact: its leading digits
NumberPrefix(name) == SubSeq(name, 1, LeadingDigits(name))

\* C36: with numbering enabled, whatever runs were made on the channel, no
\* two finalized artifacts of different videos carry the same number prefix.
C36_PrefixesDistinct ==
  cfg.enable_numbering =>
    \A f, g \in {h \in dir : ~IsTempFile(h)} :
      MatchVideoId(f) # MatchVideoId(g) => NumberPrefix(f) # NumberPrefix(g)

\* the same within the first run on an empty directory
C36_PrefixesDistinctInFirstRun ==
  (cfg.enable_numbering /\ runsLeft = MaxRuns - 1) =>
    \A f, g \in {h \in dir : ~IsTempFile(h)} :
      MatchVideoId(f) # MatchVideoId(g) => NumberPrefix(f) # NumberPrefix(g)

\* the videos of the snapshot that were filtered out as already downloaded
FilteredOut ==
  Cardinality({i \in 1..Len(all_video_ids) : all_video_ids[i] \in downloaded_ids})

\* C37: in every state of a run processed + skipped + failed does not exceed
\* total_videos, and skipped_videos is the number of snapshot videos that
\* were filtered out as already complete.
C37_CountersWithinTotal ==
  /\ progress.processed + progress.skipped + progress.failed <= progress.total
  /\ pc \in Processing => progress.skipped = FilteredOut

\* the half of it that concerns directories holding only files of the snapshot
C37_CountersOfOwnFiles ==
  (\A v \in downloaded_ids : \E i \in 1..Len(all_video_ids) : all_video_ids[i] = v)
  /\ (\A i, j \in 1..Len(all_video_ids) : all_video_ids[i] = all_video_ids[j] => i = j)
    => /\ progress.processed + progress.skipped + progress.failed <= progress.total
       /\ pc \in Processing => progress.skipped = FilteredOut

\* C38: at the end of a run processed_videos is the number of artifacts the
\* run created: a video whose preferred languages were all not available is
\* not counted as processed.
C38_ProcessedMeansArtifact ==
  /\ outcome = "returned" => progress.processed = Cardinality(created)
  /\ handled = "processed" => finalized # {}

\* The videos for which the run called the subtitle fetch.
FetchedVideos == {fetchLog[i].video : i \in 1..Len(fetchLog)}

\* C39: a VideoId that occurs more than once in the channel snapshot is
\* still attempted at one position of the run only, and the run creates at
\* most one finalized artifact for it.
C39_DuplicateAttemptedOnce ==
  /\ \A i, j \in 1..Len(fetchLog) :
       fetchLog[i].video = fetchLog[j].video => fetchLog[i].index = fetchLog[j].index
  /\ Cardinality(created) <= Cardinality(FetchedVideos)

\* The same property for the snapshots in which every VideoId occurs once.
C39_DistinctSnapshotAttemptedOnce ==
  (\A i, j \in 1..Len(all_video_ids) :
      all_video_ids[i] = all_video_ids[j] => i = j)
    => C39_DuplicateAttemptedOnce

====
